---------------------------- MODULE Spec2Model ----------------------------
(***************************************************************************)
(* A model of the GGUF header and metadata reader of opla_core             *)
(* (crates/core/src/io/gguf/mod.rs): the value type registry, the          *)
(* recursive value parser parse_metadata_value, the key/value loop         *)
(* parse_metadata_kv and the driver GGUF::read.                            *)
(*                                                                         *)
(* Representation.                                                         *)
(*   - A byte source is a sequence of bytes 0..255 and a cursor pos (the   *)
(*     number of bytes consumed).                                          *)
(*   - TLC's integers are 32 bits wide, so a u32 / u64 is kept as its      *)
(*     little-endian sequence of 16-bit limbs (2 limbs / 4 limbs): the     *)
(*     number 3 as a u32 is <<3, 0>>.  u8, i8, u16, i16 and i32 are plain  *)
(*     integers.  An i64 is [neg, mag]: its sign and the limbs of its      *)
(*     magnitude.  A float is its IEEE-754 bit pattern (limbs).            *)
(*   - A Rust String is its (valid UTF-8) byte sequence.                   *)
(*   - usize is 64 bits wide (the desktop targets of the application), so  *)
(*     "as usize" and "as u64" keep the value.                             *)
(*   - The recursion of parse_metadata_value is an explicit stack of       *)
(*     array frames; one action is one read_exact of the code together     *)
(*     with the computation that follows it up to the next read.           *)
(***************************************************************************)
EXTENDS Integers, Sequences, FiniteSets, TLC

\* ------------------------------------------------------------------------
\* Bounds of the model
\* ------------------------------------------------------------------------

\* read calls made on one GGUF instance
MaxCalls == 2
\* elements of a sampled homogeneous array
MaxElems == 2
\* nesting depth of the sampled nested arrays
MaxDepth == 3

\* ------------------------------------------------------------------------
\* Numbers
\* ------------------------------------------------------------------------

Byte == 0..255

Limb == 256 * 256

\* (the same bytes read big-endian)
LeLimbsBE(b) == [j \in 1..(Len(b) \div 2) |->
                    b[Len(b) - 2 * j + 2] + 256 * b[Len(b) - 2 * j + 1]]

\* The little-endian 16-bit limbs of an even number of little-endian bytes.
LeLimbs(b) == [j \in 1..(Len(b) \div 2) |-> b[2 * j - 1] + 256 * b[2 * j]]

\* u16::from_le_bytes
U16FromLeBytes(b) == b[1] + 256 * b[2]

\* u32::from_le_bytes
U32FromLeBytes(b) == LeLimbs(b)

\* (u64::from_be_bytes)
U64FromBeBytes(b) == LeLimbsBE(b)

\* u64::from_le_bytes
U64FromLeBytes(b) == LeLimbs(b)

\* "value[0] as i8"
AsI8(b) == IF b >= 128 THEN b - 256 ELSE b

\* (the two bytes are read as an unsigned number)
I16Unsigned(b) == b[1] + 256 * b[2]

\* i16::from_le_bytes
I16FromLeBytes(b) ==
    LET u == b[1] + 256 * b[2] IN IF u >= 32768 THEN u - 65536 ELSE u

\* i32::from_le_bytes: the top byte carries the sign
I32FromLeBytes(b) ==
    b[1] + 256 * b[2] + 65536 * b[3] + 16777216 * AsI8(b[4])

\* The two's complement of a limb sequence: 2^(16 * Len(l)) - l (mod 2^..).
RECURSIVE NegLimbsFrom(_, _, _)
NegLimbsFrom(l, j, carry) ==
    IF j > Len(l) THEN <<>>
    ELSE LET t == (Limb - 1 - l[j]) + carry
         IN  <<t % Limb>> \o NegLimbsFrom(l, j + 1, t \div Limb)

NegLimbs(l) == NegLimbsFrom(l, 1, 1)

\* i64::from_le_bytes
I64FromLeBytes(b) ==
    LET u == LeLimbs(b)
    IN  IF u[4] >= 32768 THEN [neg |-> TRUE, mag |-> NegLimbs(u)]
        ELSE [neg |-> FALSE, mag |-> u]

\* A small natural number as a u32 / u64.
U32(n) == <<n % Limb, n \div Limb>>

U64(n) == <<n % Limb, n \div Limb, 0, 0>>

\* Whether every limb above the first is 0, so that l[1] is the number.
IsSmall(l) == \A j \in 2..Len(l) : l[j] = 0

\* (a range one short: 1..n)
IndexBelowOneShort(i, n) == ~IsSmall(n) \/ i + 1 < n[1]

\* (a range one long: 0..=n)
IndexBelowInclusive(i, n) == ~IsSmall(n) \/ i <= n[1]

\* i < n for a small index i and a u64 n  (the test of "for _ in 0..n").
IndexBelow(i, n) == ~IsSmall(n) \/ i < n[1]

\* n > isize::MAX
ExceedsIsizeMax(n) == n[4] >= 32768

\* ------------------------------------------------------------------------
\* Value type registry
\* ------------------------------------------------------------------------

GGUfMetadataValueType ==
    {"UInt8", "Int8", "UInt16", "Int16", "UInt32", "Int32", "Float32",
     "Bool", "String", "Array", "UInt64", "Int64", "Float64"}

\* The discriminant the enum declaration gives each tag.
Discriminant(t) ==
    CASE t = "UInt8"   -> 0
      [] t = "Int8"    -> 1
      [] t = "UInt16"  -> 2
      [] t = "Int16"   -> 3
      [] t = "UInt32"  -> 4
      [] t = "Int32"   -> 5
      [] t = "Float32" -> 6
      [] t = "Bool"    -> 7
      [] t = "String"  -> 8
      [] t = "Array"   -> 9
      [] t = "UInt64"  -> 10
      [] t = "Int64"   -> 11
      [] t = "Float64" -> 12

\* A result of try_from: Ok(tag) or Err(message naming the code).
TagOk(t) == [ok |-> TRUE, tag |-> t, code |-> <<0, 0>>]

TagErr(item) == [ok |-> FALSE, tag |-> "", code |-> item]

\* (the arms of UInt64 and Int64 exchanged)
TagOfCodeSwapped(c) ==
    CASE c = 0  -> "UInt8"
      [] c = 1  -> "Int8"
      [] c = 2  -> "UInt16"
      [] c = 3  -> "Int16"
      [] c = 4  -> "UInt32"
      [] c = 5  -> "Int32"
      [] c = 6  -> "Float32"
      [] c = 7  -> "Bool"
      [] c = 8  -> "String"
      [] c = 9  -> "Array"
      [] c = 10 -> "Int64"
      [] c = 11 -> "UInt64"
      [] c = 12 -> "Float64"

\* The arms 0..12 of the match in try_from.
TagOfCode(c) ==
    CASE c = 0  -> "UInt8"
      [] c = 1  -> "Int8"
      [] c = 2  -> "UInt16"
      [] c = 3  -> "Int16"
      [] c = 4  -> "UInt32"
      [] c = 5  -> "Int32"
      [] c = 6  -> "Float32"
      [] c = 7  -> "Bool"
      [] c = 8  -> "String"
      [] c = 9  -> "Array"
      [] c = 10 -> "UInt64"
      [] c = 11 -> "Int64"
      [] c = 12 -> "Float64"

\* (only the low 16 bits of the code are matched)
TryFromLow16(item) ==
    IF item[1] > 12 THEN TagErr(item) ELSE TagOk(TagOfCode(item[1]))

\* impl TryFrom<u32> for GGUfMetadataValueType: the arm of the code, or the
\* default arm.
TryFrom(item) ==
    IF item[2] # 0 \/ item[1] > 12 THEN TagErr(item)
    ELSE TagOk(TagOfCode(item[1]))

\* ------------------------------------------------------------------------
\* String::from_utf8
\* ------------------------------------------------------------------------

\* (continuation bytes are not examined)
IsContAny(x) == TRUE

IsCont(x) == x >= 128 /\ x <= 191

\* The width of the well-formed UTF-8 sequence that starts at b[i], or 0.
Utf8Width(b, i) ==
    LET x == b[i]
        n == Len(b) - i + 1
    IN  IF x < 128 THEN 1
        ELSE IF x >= 194 /\ x <= 223
             THEN IF n >= 2 /\ IsCont(b[i + 1]) THEN 2 ELSE 0
        ELSE IF x >= 224 /\ x <= 239
             THEN IF /\ n >= 3
                     /\ IsCont(b[i + 1])
                     /\ (x = 224 => b[i + 1] >= 160)
                     /\ (x = 237 => b[i + 1] <= 159)
                     /\ IsCont(b[i + 2])
                  THEN 3 ELSE 0
        ELSE IF x >= 240 /\ x <= 244
             THEN IF /\ n >= 4
                     /\ IsCont(b[i + 1])
                     /\ (x = 240 => b[i + 1] >= 144)
                     /\ (x = 244 => b[i + 1] <= 143)
                     /\ IsCont(b[i + 2])
                     /\ IsCont(b[i + 3])
                  THEN 4 ELSE 0
        ELSE 0

RECURSIVE ValidUtf8From(_, _)
ValidUtf8From(b, i) ==
    IF i > Len(b) THEN TRUE
    ELSE LET w == Utf8Width(b, i)
         IN  IF w = 0 THEN FALSE ELSE ValidUtf8From(b, i + w)

\* Whether String::from_utf8(b) is Ok (the String is then b itself).
FromUtf8Ok(b) == ValidUtf8From(b, 1)

\* ------------------------------------------------------------------------
\* Values, entries
\* ------------------------------------------------------------------------

\* A GGUFMetadataValue: the variant's name and its payload.
Val(kind, val) == [kind |-> kind, val |-> val]

\* GGUFMetadataValue::Array(GGUFMetadataArrayValue { value_type, len, value })
ArrayVal(t, len, value) ==
    Val("Array", [value_type |-> t, len |-> len, value |-> value])

\* GGUFMetadata { key, value_type, value }
Entry(key, t, value) == [key |-> key, value_type |-> t, value |-> value]

\* The tags whose payload has a fixed width, and that width in bytes.
FixedTags == GGUfMetadataValueType \ {"String", "Array"}

Width(t) ==
    CASE t \in {"UInt8", "Int8", "Bool"}        -> 1
      [] t \in {"UInt16", "Int16"}              -> 2
      [] t \in {"UInt32", "Int32", "Float32"}   -> 4
      [] t \in {"UInt64", "Int64", "Float64"}   -> 8

\* (only the byte 1 is true)
FixedValueBoolIsOne(t, b) ==
    CASE t = "UInt8"   -> Val("Uint8", b[1])
      [] t = "Int8"    -> Val("Int8", AsI8(b[1]))
      [] t = "UInt16"  -> Val("Uint16", U16FromLeBytes(b))
      [] t = "Int16"   -> Val("Int16", I16FromLeBytes(b))
      [] t = "UInt32"  -> Val("Uint32", U32FromLeBytes(b))
      [] t = "Int32"   -> Val("Int32", I32FromLeBytes(b))
      [] t = "Float32" -> Val("Float32", U32FromLeBytes(b))
      [] t = "Bool"    -> Val("Bool", b[1] = 1)
      [] t = "UInt64"  -> Val("Uint64", U64FromLeBytes(b))
      [] t = "Int64"   -> Val("Int64", I64FromLeBytes(b))
      [] t = "Float64" -> Val("Float64", U64FromLeBytes(b))

\* (the UInt8 arm builds what the Int8 arm builds)
FixedValueU8AsI8(t, b) ==
    CASE t \in {"UInt8", "Int8"} -> Val("Int8", AsI8(b[1]))
      [] t = "UInt16"  -> Val("Uint16", U16FromLeBytes(b))
      [] t = "Int16"   -> Val("Int16", I16FromLeBytes(b))
      [] t = "UInt32"  -> Val("Uint32", U32FromLeBytes(b))
      [] t = "Int32"   -> Val("Int32", I32FromLeBytes(b))
      [] t = "Float32" -> Val("Float32", U32FromLeBytes(b))
      [] t = "Bool"    -> Val("Bool", b[1] # 0)
      [] t = "UInt64"  -> Val("Uint64", U64FromLeBytes(b))
      [] t = "Int64"   -> Val("Int64", I64FromLeBytes(b))
      [] t = "Float64" -> Val("Float64", U64FromLeBytes(b))

\* The value each fixed-width arm of parse_metadata_value builds from the
\* bytes it has read.
FixedValue(t, b) ==
    CASE t = "UInt8"   -> Val("Uint8", b[1])
      [] t = "Int8"    -> Val("Int8", AsI8(b[1]))
      [] t = "UInt16"  -> Val("Uint16", U16FromLeBytes(b))
      [] t = "Int16"   -> Val("Int16", I16FromLeBytes(b))
      [] t = "UInt32"  -> Val("Uint32", U32FromLeBytes(b))
      [] t = "Int32"   -> Val("Int32", I32FromLeBytes(b))
      [] t = "Float32" -> Val("Float32", U32FromLeBytes(b))
      [] t = "Bool"    -> Val("Bool", b[1] # 0)
      [] t = "UInt64"  -> Val("Uint64", U64FromLeBytes(b))
      [] t = "Int64"   -> Val("Int64", I64FromLeBytes(b))
      [] t = "Float64" -> Val("Float64", U64FromLeBytes(b))

\* ------------------------------------------------------------------------
\* The wire layout (an encoder, used to produce well-formed streams)
\* ------------------------------------------------------------------------

\* The four identity bytes "GGUF": 0x47 0x47 0x55 0x46.
Magic == <<71, 71, 85, 70>>

EncLimbs(l) == [i \in 1..(2 * Len(l)) |->
                  IF i % 2 = 1 THEN l[(i + 1) \div 2] % 256
                  ELSE l[i \div 2] \div 256]

EncU16(n) == <<n % 256, n \div 256>>

EncI32(v) == EncLimbs(<<v % Limb, (v \div Limb) % Limb>>)

EncI64(v) == IF v.neg THEN EncLimbs(NegLimbs(v.mag)) ELSE EncLimbs(v.mag)

EncString(s) == EncLimbs(U64(Len(s))) \o s

EncTag(t) == EncLimbs(U32(Discriminant(t)))

RECURSIVE EncValue(_)
RECURSIVE EncValues(_)
EncValues(vs) ==
    IF vs = <<>> THEN <<>> ELSE EncValue(Head(vs)) \o EncValues(Tail(vs))

EncValue(v) ==
    CASE v.kind = "Uint8"   -> <<v.val>>
      [] v.kind = "Int8"    -> <<v.val % 256>>
      [] v.kind = "Uint16"  -> EncU16(v.val)
      [] v.kind = "Int16"   -> EncU16(v.val % Limb)
      [] v.kind = "Uint32"  -> EncLimbs(v.val)
      [] v.kind = "Int32"   -> EncI32(v.val)
      [] v.kind = "Float32" -> EncLimbs(v.val)
      [] v.kind = "Bool"    -> IF v.val THEN <<1>> ELSE <<0>>
      [] v.kind = "String"  -> EncString(v.val)
      [] v.kind = "Uint64"  -> EncLimbs(v.val)
      [] v.kind = "Int64"   -> EncI64(v.val)
      [] v.kind = "Float64" -> EncLimbs(v.val)
      [] v.kind = "Array"   ->
            EncTag(v.val.value_type) \o EncLimbs(v.val.len)
                \o EncValues(v.val.value)

EncEntry(e) == EncString(e.key) \o EncTag(e.value_type) \o EncValue(e.value)

RECURSIVE EncEntries(_)
EncEntries(es) ==
    IF es = <<>> THEN <<>> ELSE EncEntry(Head(es)) \o EncEntries(Tail(es))

\* A container value: the header fields and the ordered entries.
Container(v, tc, es) == [version |-> v, tensor_count |-> tc, entries |-> es]

Encode(c) ==
    Magic \o EncLimbs(c.version) \o EncLimbs(c.tensor_count)
          \o EncLimbs(U64(Len(c.entries))) \o EncEntries(c.entries)

\* ------------------------------------------------------------------------
\* Sampled containers and the byte streams given to read
\* ------------------------------------------------------------------------

\* The tag under which a value is encoded.
TagOfVal(v) ==
    CASE v.kind = "Uint8"  -> "UInt8"
      [] v.kind = "Uint16" -> "UInt16"
      [] v.kind = "Uint32" -> "UInt32"
      [] v.kind = "Uint64" -> "UInt64"
      [] OTHER             -> v.kind

\* Sample payloads of every tag but Array, with distinct bytes at distinct
\* positions and with the top bit set or clear.
SampleSeq(t) ==
    CASE t = "UInt8"   -> <<Val("Uint8", 7), Val("Uint8", 200)>>
      [] t = "Int8"    -> <<Val("Int8", -1), Val("Int8", 5)>>
      [] t = "UInt16"  -> <<Val("Uint16", 513), Val("Uint16", 65535)>>
      [] t = "Int16"   -> <<Val("Int16", -2), Val("Int16", 258)>>
      [] t = "UInt32"  -> <<Val("Uint32", <<513, 1027>>),
                            Val("Uint32", <<65535, 65535>>)>>
      [] t = "Int32"   -> <<Val("Int32", 42), Val("Int32", -2147483647)>>
      [] t = "Float32" -> <<Val("Float32", <<0, 16256>>),
                            Val("Float32", <<1, 65472>>)>>
      [] t = "Bool"    -> <<Val("Bool", TRUE), Val("Bool", FALSE)>>
      [] t = "String"  -> <<Val("String", <<104, 105>>), Val("String", <<>>),
                            Val("String", <<195, 169>>)>>
      [] t = "UInt64"  -> <<Val("Uint64", <<513, 1027, 1541, 2055>>),
                            Val("Uint64", <<65535, 65535, 65535, 65535>>)>>
      [] t = "Int64"   -> <<Val("Int64", [neg |-> TRUE, mag |-> <<1, 0, 0, 0>>]),
                            Val("Int64", [neg |-> FALSE, mag |-> <<42, 0, 0, 0>>]),
                            Val("Int64", [neg |-> TRUE, mag |-> <<0, 0, 0, 32768>>])>>
      [] t = "Float64" -> <<Val("Float64", <<0, 0, 0, 16368>>),
                            Val("Float64", <<2, 0, 0, 65528>>)>>

LeafTags == GGUfMetadataValueType \ {"Array"}

SampleValues == UNION {{SampleSeq(t)[i] : i \in 1..Len(SampleSeq(t))} : t \in LeafTags}

EmptyArray(t) == ArrayVal(t, U64(0), <<>>)

\* An array of n sample values of tag t.
FlatArray(t, n) ==
    ArrayVal(t, U64(n),
             [i \in 1..n |-> SampleSeq(t)[((i - 1) % Len(SampleSeq(t))) + 1]])

\* leaf wrapped in d - 1 arrays of one element each.
RECURSIVE Nest(_, _)
Nest(d, leaf) ==
    IF d <= 1 THEN leaf ELSE ArrayVal("Array", U64(1), <<Nest(d - 1, leaf)>>)

ScenarioArray ==
    ArrayVal("UInt8", U64(3), <<Val("Uint8", 1), Val("Uint8", 2), Val("Uint8", 3)>>)

WideNest ==
    ArrayVal("Array", U64(2),
             <<ArrayVal("Array", U64(2), <<FlatArray("UInt16", 1), EmptyArray("String")>>),
               ArrayVal("Array", U64(0), <<>>)>>)

SampleArrays ==
    {EmptyArray(t) : t \in GGUfMetadataValueType}
    \cup {FlatArray(t, n) : t \in LeafTags, n \in 1..MaxElems}
    \cup {Nest(d, leaf) : d \in 2..MaxDepth,
                          leaf \in {EmptyArray("Int16"), FlatArray("UInt8", 2),
                                    EmptyArray("Array")}}
    \cup {Nest(2, EmptyArray(t)) : t \in GGUfMetadataValueType}
    \cup {ScenarioArray, WideNest}

KeyK == <<107>>

KeyAnswer == <<97, 110, 115, 119, 101, 114>>

EntryOf(key, v) == Entry(key, TagOfVal(v), v)

AnswerContainer ==
    Container(U32(3), U64(0), <<Entry(KeyAnswer, "Int32", Val("Int32", 42))>>)

ScenarioArrayContainer ==
    Container(U32(3), U64(0), <<EntryOf(KeyK, ScenarioArray)>>)

DeepContainer ==
    Container(U32(3), U64(2), <<EntryOf(KeyK, Nest(MaxDepth, FlatArray("UInt8", 2)))>>)

StringContainer ==
    Container(U32(2), U64(1), <<EntryOf(<<195, 169>>, Val("String", <<104, 105>>))>>)

DuplicateKeyContainer ==
    Container(<<513, 1027>>, <<2055, 1541, 1027, 513>>,
              <<EntryOf(KeyK, Val("Uint8", 7)), EntryOf(KeyK, Val("String", <<104, 105>>))>>)

MultiContainers ==
    {DuplicateKeyContainer,
     Container(U32(3), U64(0), <<EntryOf(KeyK, Val("Uint8", 7)), EntryOf(KeyK, Val("Uint8", 7))>>),
     Container(U32(3), U64(0), <<EntryOf(<<>>, Val("Bool", TRUE)), EntryOf(KeyAnswer, WideNest),
                                 EntryOf(KeyK, Val("Int16", -2))>>),
     Container(U32(1), <<0, 0, 0, 65535>>, <<>>),
     Container(<<0, 32768>>, U64(7), <<>>)}

Containers ==
    {Container(U32(3), U64(0), <<EntryOf(KeyK, v)>>) : v \in SampleValues \cup SampleArrays}
    \cup {AnswerContainer, StringContainer, DeepContainer}
    \cup MultiContainers

\* An input of read: the bytes of the file, and how they were made from
\* the encoding of a sampled container (base): "valid" is the encoding
\* itself, "truncated" a proper prefix of it, "magic" the encoding with bytes
\* of the magic marker replaced, "corrupted" the encoding with the byte at
\* index at replaced, "trailing" the encoding followed by other bytes,
\* "short" the first at bytes of the encoding with bytes of the magic marker
\* replaced, "damaged" the first at bytes of the encoding with one or two
\* bytes replaced.
Input(how, c, at, bytes) == [how |-> how, base |-> c, at |-> at, bytes |-> bytes]

ValidInputs == {Input("valid", c, 0, Encode(c)) : c \in Containers}

\* Every proper prefix of every well-formed stream.
Truncations ==
    UNION {LET e == Encode(c)
           IN  {Input("truncated", c, n, SubSeq(e, 1, n)) : n \in 0..(Len(e) - 1)} :
           c \in Containers}

\* Well-formed streams with one byte of the magic marker replaced, and two
\* streams with every combination of replaced magic bytes.
MagicBytes == {0, 70, 71, 85, 255}

MagicCorruptions ==
    UNION {LET e == Encode(c)
           IN  {inp \in {Input("magic", c, i, [e EXCEPT ![i] = b]) :
                              i \in 1..4, b \in MagicBytes} : inp.bytes # e} :
           c \in Containers}
    \cup
    UNION {LET e == Encode(c)
           IN  {Input("magic", c, 0, [i \in 1..Len(e) |-> IF i <= 4 THEN m[i] ELSE e[i]]) :
                   m \in [1..4 -> {0, 70, 71, 85}] \ {Magic}} :
           c \in {AnswerContainer, DuplicateKeyContainer}}

\* Well-formed streams with one byte after the magic marker replaced.
CorruptionBases ==
    {AnswerContainer, ScenarioArrayContainer, DeepContainer, StringContainer,
     DuplicateKeyContainer}

CorruptBytes == {0, 1, 9, 13, 128, 255}

Corruptions ==
    UNION {LET e == Encode(c)
           IN  {inp \in {Input("corrupted", c, i, [e EXCEPT ![i] = b]) :
                              i \in 5..Len(e), b \in CorruptBytes} : inp.bytes # e} :
           c \in CorruptionBases}

\* Well-formed streams followed by bytes that are not metadata.
Trailing ==
    {Input("trailing", c, 0, Encode(c) \o t) :
        c \in CorruptionBases, t \in {<<0>>, <<255, 1, 2>>}}

\* Well-formed streams of one Bool, or one array of two Bool, with a
\* payload byte replaced.
BoolContainer == Container(U32(3), U64(0), <<EntryOf(KeyK, Val("Bool", TRUE))>>)

BoolArrayContainer == Container(U32(3), U64(0), <<EntryOf(KeyK, FlatArray("Bool", 2))>>)

BoolPayloads == {0, 1, 2, 127, 128, 255}

BoolBytes ==
    UNION {LET e == Encode(c)
           IN  {inp \in {Input("corrupted", c, i, [e EXCEPT ![i] = b]) :
                              i \in 38..Len(e), b \in BoolPayloads} :
                   inp.bytes # e /\ (c = BoolArrayContainer => inp.at >= 50)} :
           c \in {BoolContainer, BoolArrayContainer}}

\* Streams with one or two bytes of the first entry's key, type tag or
\* element tag replaced, whole or cut short within or after that entry head.
DamageBases ==
    {AnswerContainer, StringContainer, ScenarioArrayContainer,
     Container(U32(3), U64(0), <<EntryOf(KeyK, EmptyArray("UInt8"))>>)}

DamageBytes == {13, 255}

DamageAt == 33..41

Damaged ==
    UNION {LET e   == Encode(c)
               one == {[e EXCEPT ![i] = b] : i \in DamageAt, b \in DamageBytes}
               two == {[d EXCEPT ![j] = 255] : d \in one, j \in DamageAt}
           IN  {Input("damaged", c, n, SubSeq(d, 1, n)) :
                   d \in one \cup two, n \in (33..45) \cup {Len(e)}} :
           c \in DamageBases}

\* Streams of 4 to 7 bytes that do not begin with the magic marker.
ShortHeaders ==
    LET e == Encode(AnswerContainer)
    IN  {Input("short", AnswerContainer, n, m \o SubSeq(e, 5, n)) :
            n \in 4..7, m \in {<<0, 0, 0, 0>>, <<71, 71, 85, 0>>}}

Inputs ==
    ValidInputs \cup Truncations \cup MagicCorruptions \cup Corruptions \cup Trailing
    \cup ShortHeaders \cup BoolBytes \cup Damaged

\* The inputs of a second read on the same instance (beside the input of
\* the first read, read again).
RereadInputs ==
    {Input("valid", AnswerContainer, 0, Encode(AnswerContainer)),
     Input("valid", DuplicateKeyContainer, 0, Encode(DuplicateKeyContainer)),
     Input("truncated", DuplicateKeyContainer, 40,
           SubSeq(Encode(DuplicateKeyContainer), 1, 40))}

\* No input: File::open failed.
NoInput == Input("none", AnswerContainer, 0, <<>>)

\* ------------------------------------------------------------------------
\* State
\* ------------------------------------------------------------------------

VARIABLES
    \* the GGUF instance
    version, tensor_count, metadata_kv_count, metadata_kv,
    \* the file read was called on, as one of the sampled inputs
    input,
    \* the BufReader<File> of the read in progress: its bytes and its cursor
    stream, pos,
    \* the position of the read in the code, and its outcome once it ended
    pc, result,
    \* locals of parse_metadata_kv: loop index, key, tag of the entry
    kv_i, key, value_type,
    \* the length read last (key, string), before its bytes are read
    length,
    \* the array frames of the parse_metadata_value calls in progress
    stack,
    \* number of read calls made on the instance
    calls,
    \* bookkeeping: the instance and the previous outcome when read was called
    pre,
    \* bookkeeping: the last try_from call, [item, res]
    lookup,
    \* bookkeeping: the last value parse_metadata_value returned, with the
    \* cursor before and after it
    ret,
    \* bookkeeping: the cursor when the value being parsed began
    vstart,
    \* a second GGUF instance with the read on it, when two reads are
    \* interleaved: the variables above, as a record
    other,
    \* bookkeeping of the interleaving: which of the two reads is the one in
    \* the variables above, the outcomes of the two reads run alone, and
    \* whether the reads were switched while both were in progress
    conc

gguf == <<version, tensor_count, metadata_kv_count, metadata_kv>>

vars == <<version, tensor_count, metadata_kv_count, metadata_kv, input,
          stream, pos,
          pc, result, kv_i, key, value_type, length, stack, calls, pre,
          lookup, ret, vstart, other, conc>>

\* Result<(), String> of read, by the kind of its message; "Panic" and
\* "Abort" are the two ways the process leaves read without a result.
Ok == [ok |-> TRUE, err |-> "", code |-> <<0, 0>>]

Err(kind) == [ok |-> FALSE, err |-> kind, code |-> <<0, 0>>]

ErrCode(kind, code) == [ok |-> FALSE, err |-> kind, code |-> code]

NoResult == [ok |-> FALSE, err |-> "none", code |-> <<0, 0>>]

NoValue == Val("none", 0)

NoLookup == [made |-> FALSE, item |-> U32(0), res |-> TagOk("")]

NoReturn == [value |-> NoValue, start |-> 0, end |-> 0, depth |-> 0]


Snapshot ==
    [version |-> version, tensor_count |-> tensor_count,
     metadata_kv_count |-> metadata_kv_count, metadata_kv |-> metadata_kv,
     stream |-> stream, result |-> result]

\* An instance with the read on it.
Regs ==
    [version |-> version, tensor_count |-> tensor_count,
     metadata_kv_count |-> metadata_kv_count, metadata_kv |-> metadata_kv,
     input |-> input, stream |-> stream, pos |-> pos, pc |-> pc,
     result |-> result, kv_i |-> kv_i, key |-> key, value_type |-> value_type,
     length |-> length, stack |-> stack, calls |-> calls, pre |-> pre,
     lookup |-> lookup, ret |-> ret, vstart |-> vstart]

\* GGUF::new() and no read yet, as such a record.
New ==
    [version |-> U32(0), tensor_count |-> U64(0), metadata_kv_count |-> U64(0),
     metadata_kv |-> <<>>, input |-> NoInput, stream |-> <<>>, pos |-> 0,
     pc |-> "idle", result |-> NoResult, kv_i |-> 0, key |-> <<>>,
     value_type |-> "", length |-> U64(0), stack |-> <<>>, calls |-> 0,
     pre |-> [version |-> U32(0), tensor_count |-> U64(0),
              metadata_kv_count |-> U64(0), metadata_kv |-> <<>>,
              stream |-> <<>>, result |-> NoResult],
     lookup |-> NoLookup, ret |-> NoReturn, vstart |-> 0]

\* GGUF::new() and no read yet.
Init ==
    /\ version = U32(0)
    /\ tensor_count = U64(0)
    /\ metadata_kv_count = U64(0)
    /\ metadata_kv = <<>>
    /\ input = NoInput
    /\ stream = <<>>
    /\ pos = 0
    /\ pc = "idle"
    /\ result = NoResult
    /\ kv_i = 0
    /\ key = <<>>
    /\ value_type = ""
    /\ length = U64(0)
    /\ stack = <<>>
    /\ calls = 0
    /\ pre = Snapshot
    /\ lookup = NoLookup
    /\ ret = NoReturn
    /\ vstart = 0
    /\ other = New
    /\ conc = [me |-> 1, alone |-> <<>>, mixed |-> FALSE]

\* ------------------------------------------------------------------------
\* The byte source
\* ------------------------------------------------------------------------

\* Whether read_exact of n bytes succeeds, and the bytes it then yields.
CanRead(n) == pos + n <= Len(stream)

Peek(n) == SubSeq(stream, pos + 1, pos + n)

\* A Vec of n zero bytes: n > isize::MAX panics (capacity overflow); an
\* allocation of 4 GiB or more succeeds or aborts the process, as the
\* allocator decides.
AllocOutcomes(n) ==
    IF ExceedsIsizeMax(n) THEN {"Panic"}
    ELSE IF n[3] # 0 \/ n[4] # 0 THEN {"ok", "Abort"}
    ELSE {"ok"}

\* (the length is kept in a buffer that the reads of all instances share)
CanReadLenShared(n) ==
    /\ IsSmall(n)
    /\ CanRead(n[1])
    /\ other.pc \in {"key", "string"}
          => (IsSmall(other.length) /\ CanRead(other.length[1]))

\* read_exact of a buffer of n bytes (a u64) succeeds.
CanReadLen(n) == IsSmall(n) /\ CanRead(n[1])

\* ------------------------------------------------------------------------
\* How a read ends
\* ------------------------------------------------------------------------

\* (the error is recorded and the entry loop goes on)
FailAndContinue(e) ==
    /\ result' = e
    /\ pc' = "kv_loop"
    /\ stack' = <<>>
    /\ UNCHANGED <<kv_i, key, value_type, length, vstart>>

\* read returns Err(e): the locals are dropped, the instance keeps whatever
\* the read has stored in it.
Fail(e) ==
    /\ result' = e
    /\ pc' = "returned"
    /\ stack' = <<>>
    /\ UNCHANGED <<kv_i, key, value_type, length, vstart>>

\* A read_exact that meets the end of the stream consumes what is left.
Truncated ==
    /\ pos' = Len(stream)
    /\ Fail(Err("Truncated"))

\* The process panics or aborts inside read.
Crash(kind) ==
    /\ result' = Err(kind)
    /\ pc' = "crashed"
    /\ stack' = <<>>
    /\ UNCHANGED <<kv_i, key, value_type, length, vstart>>

\* ------------------------------------------------------------------------
\* GGUF::read
\* ------------------------------------------------------------------------

\* (read empties the table before it decodes)
ReadCallFromCleared(first, again) ==
    /\ pc \in {"idle", "returned"}
    /\ calls < MaxCalls
    /\ \E inp \in (IF calls = 0 THEN first
                   ELSE (again \cup {input}) \ {NoInput}) :
          /\ input' = inp
          /\ stream' = inp.bytes
    /\ pos' = 0
    /\ pc' = "magic"
    /\ result' = NoResult
    /\ calls' = calls + 1
    /\ pre' = Snapshot
    /\ kv_i' = 0
    /\ key' = <<>>
    /\ value_type' = ""
    /\ length' = U64(0)
    /\ stack' = <<>>
    /\ vstart' = 0
    /\ lookup' = NoLookup
    /\ ret' = NoReturn
    /\ metadata_kv' = <<>>
    /\ UNCHANGED <<version, tensor_count, metadata_kv_count>>

\* read(path) is called and File::open succeeds: a fresh reader over the
\* bytes of the file, which is one of first for the first call on the
\* instance; a later call reads the same file again or one of again.
ReadCallFrom(first, again) ==
    /\ pc \in {"idle", "returned"}
    /\ calls < MaxCalls
    /\ \E inp \in (IF calls = 0 THEN first
                   ELSE (again \cup {input}) \ {NoInput}) :
          /\ input' = inp
          /\ stream' = inp.bytes
    /\ pos' = 0
    /\ pc' = "magic"
    /\ result' = NoResult
    /\ calls' = calls + 1
    /\ pre' = Snapshot
    /\ kv_i' = 0
    /\ key' = <<>>
    /\ value_type' = ""
    /\ length' = U64(0)
    /\ stack' = <<>>
    /\ vstart' = 0
    /\ lookup' = NoLookup
    /\ ret' = NoReturn
    /\ UNCHANGED <<version, tensor_count, metadata_kv_count, metadata_kv>>

\* read on one instance, with the sampled inputs.
ReadCall ==
    /\ ReadCallFrom(Inputs, RereadInputs)
    /\ UNCHANGED <<other, conc>>

\* read(path) is called and File::open fails.
ReadOpenFails ==
    /\ pc \in {"idle", "returned"}
    /\ calls < MaxCalls
    /\ input' = NoInput
    /\ stream' = <<>>
    /\ pos' = 0
    /\ pc' = "returned"
    /\ result' = Err("IoFailure")
    /\ calls' = calls + 1
    /\ pre' = Snapshot
    /\ lookup' = NoLookup
    /\ ret' = NoReturn
    /\ UNCHANGED <<version, tensor_count, metadata_kv_count, metadata_kv,
                   kv_i, key, value_type, length, stack, vstart>>
    /\ UNCHANGED <<other, conc>>

\* (the test that rejects a header when any of the four bytes differs)
MagicMismatchAny(header) ==
    header[1] # 71 \/ header[2] # 71 \/ header[3] # 85 \/ header[4] # 70

\* The test that rejects a header: every one of the four bytes differs.
MagicMismatch(header) ==
    header[1] # 71 /\ header[2] # 71 /\ header[3] # 85 /\ header[4] # 70

\* The first read_exact (magic and version together), the magic test and
\* the version.
ReadMagic ==
    /\ pc = "magic"
    /\ IF ~CanRead(8) THEN
          /\ Truncated
          /\ UNCHANGED version
       ELSE LET header == Peek(8) IN
          /\ pos' = pos + 8
          /\ IF MagicMismatch(header) THEN
                /\ Fail(Err("NotThisFormat"))
                /\ UNCHANGED version
             ELSE
                /\ version' = U32FromLeBytes(SubSeq(header, 5, 8))
                /\ pc' = "tensor_count"
                /\ UNCHANGED <<result, kv_i, key, value_type, length, stack, vstart>>
    /\ UNCHANGED <<tensor_count, metadata_kv_count, metadata_kv, input, stream,
                   calls, pre, lookup, ret>>
    /\ UNCHANGED <<other, conc>>

ReadTensorCount ==
    /\ pc = "tensor_count"
    /\ IF ~CanRead(8) THEN
          /\ Truncated
          /\ UNCHANGED tensor_count
       ELSE
          /\ pos' = pos + 8
          /\ tensor_count' = U64FromLeBytes(Peek(8))
          /\ pc' = "kv_count"
          /\ UNCHANGED <<result, kv_i, key, value_type, length, stack, vstart>>
    /\ UNCHANGED <<version, metadata_kv_count, metadata_kv, input, stream,
                   calls, pre, lookup, ret>>
    /\ UNCHANGED <<other, conc>>

\* The third read_exact; read then calls parse_metadata_kv.
ReadKvCount ==
    /\ pc = "kv_count"
    /\ IF ~CanRead(8) THEN
          /\ Truncated
          /\ UNCHANGED metadata_kv_count
       ELSE
          /\ pos' = pos + 8
          /\ metadata_kv_count' = U64FromLeBytes(Peek(8))
          /\ pc' = "kv_loop"
          /\ UNCHANGED <<result, kv_i, key, value_type, length, stack, vstart>>
    /\ UNCHANGED <<version, tensor_count, metadata_kv, input, stream,
                   calls, pre, lookup, ret>>
    /\ UNCHANGED <<other, conc>>

\* ------------------------------------------------------------------------
\* GGUF::parse_metadata_kv
\* ------------------------------------------------------------------------

\* (after the entries, the tensors that tensor_count announces are read)
KvLoopThenTensors ==
    /\ pc = "kv_loop"
    /\ IF IndexBelow(kv_i, metadata_kv_count) THEN
          /\ pc' = "key_length"
          /\ UNCHANGED <<result, pos, kv_i, key, value_type, length, stack, vstart>>
       ELSE IF tensor_count # U64(0) /\ ~CanRead(32) THEN
          Truncated
       ELSE
          /\ pc' = "returned"
          /\ result' = Ok
          /\ pos' = IF tensor_count # U64(0) THEN pos + 32 ELSE pos
          /\ UNCHANGED <<kv_i, key, value_type, length, stack, vstart>>
    /\ UNCHANGED <<version, tensor_count, metadata_kv_count, metadata_kv,
                   input, stream, calls, pre, lookup, ret>>
    /\ UNCHANGED <<other, conc>>

\* The head of "for _ in 0..self.metadata_kv_count"; when the range is
\* exhausted parse_metadata_kv returns Ok(()) and so does read.
KvLoop ==
    /\ pc = "kv_loop"
    /\ IF IndexBelow(kv_i, metadata_kv_count) THEN
          /\ pc' = "key_length"
          /\ UNCHANGED result
       ELSE
          /\ pc' = "returned"
          /\ result' = Ok
    /\ UNCHANGED <<version, tensor_count, metadata_kv_count, metadata_kv,
                   input, stream, pos, kv_i, key, value_type, length, stack, calls,
                   pre, lookup, ret, vstart>>
    /\ UNCHANGED <<other, conc>>

ReadKeyLength ==
    /\ pc = "key_length"
    /\ IF ~CanRead(8) THEN
          Truncated
       ELSE
          /\ pos' = pos + 8
          /\ length' = U64FromLeBytes(Peek(8))
          /\ pc' = "key"
          /\ UNCHANGED <<result, kv_i, key, value_type, stack, vstart>>
    /\ UNCHANGED <<version, tensor_count, metadata_kv_count, metadata_kv,
                   input, stream, calls, pre, lookup, ret>>
    /\ UNCHANGED <<other, conc>>

\* (the key bytes that are present are validated before the key is found
\* to be incomplete)
ReadKeyValidatesFirst ==
    /\ pc = "key"
    /\ \E o \in AllocOutcomes(length) :
          IF o # "ok" THEN
             /\ Crash(o)
             /\ UNCHANGED pos
          ELSE IF ~CanReadLen(length) THEN
             IF FromUtf8Ok(SubSeq(stream, pos + 1, Len(stream))) THEN
                Truncated
             ELSE
                /\ pos' = Len(stream)
                /\ Fail(Err("InvalidUtf8"))
          ELSE LET b == Peek(length[1]) IN
             /\ pos' = pos + length[1]
             /\ IF FromUtf8Ok(b) THEN
                   /\ key' = b
                   /\ pc' = "value_type"
                   /\ UNCHANGED <<result, kv_i, value_type, length, stack, vstart>>
                ELSE
                   Fail(Err("InvalidUtf8"))
    /\ UNCHANGED <<version, tensor_count, metadata_kv_count, metadata_kv,
                   input, stream, calls, pre, lookup, ret>>
    /\ UNCHANGED <<other, conc>>

\* vec![0; length], read_exact, String::from_utf8
ReadKey ==
    /\ pc = "key"
    /\ \E o \in AllocOutcomes(length) :
          IF o # "ok" THEN
             /\ Crash(o)
             /\ UNCHANGED pos
          ELSE IF ~CanReadLen(length) THEN
             Truncated
          ELSE LET b == Peek(length[1]) IN
             /\ pos' = pos + length[1]
             /\ IF FromUtf8Ok(b) THEN
                   /\ key' = b
                   /\ pc' = "value_type"
                   /\ UNCHANGED <<result, kv_i, value_type, length, stack, vstart>>
                ELSE
                   Fail(Err("InvalidUtf8"))
    /\ UNCHANGED <<version, tensor_count, metadata_kv_count, metadata_kv,
                   input, stream, calls, pre, lookup, ret>>
    /\ UNCHANGED <<other, conc>>

\* The tag of the entry; parse_metadata_value is then called with it.
ReadValueType ==
    /\ pc = "value_type"
    /\ IF ~CanRead(4) THEN
          /\ Truncated
          /\ UNCHANGED lookup
       ELSE LET item == U32FromLeBytes(Peek(4))
                res  == TryFrom(item)
            IN
          /\ pos' = pos + 4
          /\ lookup' = [made |-> TRUE, item |-> item, res |-> res]
          /\ IF res.ok THEN
                /\ value_type' = res.tag
                /\ pc' = "value"
                /\ vstart' = pos + 4
                /\ UNCHANGED <<result, kv_i, key, length, stack>>
             ELSE
                Fail(ErrCode("UnknownValueType", res.code))
    /\ UNCHANGED <<version, tensor_count, metadata_kv_count, metadata_kv,
                   input, stream, calls, pre, ret>>
    /\ UNCHANGED <<other, conc>>

\* ------------------------------------------------------------------------
\* GGUF::parse_metadata_value
\* ------------------------------------------------------------------------

\* (every nested call is given the tag of the entry)
CurrentTypeOfEntry == value_type

\* The tag parse_metadata_value was called with: the entry's tag, or the
\* element tag of the innermost array in progress.
CurrentType ==
    IF stack = <<>> THEN value_type ELSE stack[Len(stack)].value_type

\* (an entry replaces an earlier entry of the same key: a map)
ReturnKeyed(v, start, end, stk) ==
    /\ ret' = [value |-> v, start |-> start, end |-> end, depth |-> Len(stk)]
    /\ IF stk = <<>> THEN
          /\ metadata_kv' =
                IF \E i \in 1..Len(metadata_kv) : metadata_kv[i].key = key
                THEN [metadata_kv EXCEPT
                        ![CHOOSE i \in 1..Len(metadata_kv) : metadata_kv[i].key = key] =
                            Entry(key, value_type, v)]
                ELSE Append(metadata_kv, Entry(key, value_type, v))
          /\ kv_i' = kv_i + 1
          /\ stack' = <<>>
          /\ pc' = "kv_loop"
       ELSE
          /\ stack' = [stk EXCEPT ![Len(stk)].value = Append(@, v)]
          /\ pc' = "array_loop"
          /\ UNCHANGED <<metadata_kv, kv_i>>

\* (the entry of an array is pushed with the element tag of the array)
ReturnShadowed(v, start, end, stk) ==
    /\ ret' = [value |-> v, start |-> start, end |-> end, depth |-> Len(stk)]
    /\ IF stk = <<>> THEN
          /\ metadata_kv' =
                Append(metadata_kv,
                       Entry(key, IF v.kind = "Array" THEN v.val.value_type
                                  ELSE value_type, v))
          /\ kv_i' = kv_i + 1
          /\ stack' = <<>>
          /\ pc' = "kv_loop"
       ELSE
          /\ stack' = [stk EXCEPT ![Len(stk)].value = Append(@, v)]
          /\ pc' = "array_loop"
          /\ UNCHANGED <<metadata_kv, kv_i>>

\* (the entry is inserted at the front of the table)
ReturnFront(v, start, end, stk) ==
    /\ ret' = [value |-> v, start |-> start, end |-> end, depth |-> Len(stk)]
    /\ IF stk = <<>> THEN
          /\ metadata_kv' = <<Entry(key, value_type, v)>> \o metadata_kv
          /\ kv_i' = kv_i + 1
          /\ stack' = <<>>
          /\ pc' = "kv_loop"
       ELSE
          /\ stack' = [stk EXCEPT ![Len(stk)].value = Append(@, v)]
          /\ pc' = "array_loop"
          /\ UNCHANGED <<metadata_kv, kv_i>>

\* parse_metadata_value returns Ok(v) to the call site: to the element loop
\* of the enclosing array (stk is the stack of the enclosing calls), or to
\* parse_metadata_kv, which pushes the entry.
Return(v, start, end, stk) ==
    /\ ret' = [value |-> v, start |-> start, end |-> end, depth |-> Len(stk)]
    /\ IF stk = <<>> THEN
          /\ metadata_kv' = Append(metadata_kv, Entry(key, value_type, v))
          /\ kv_i' = kv_i + 1
          /\ stack' = <<>>
          /\ pc' = "kv_loop"
       ELSE
          /\ stack' = [stk EXCEPT ![Len(stk)].value = Append(@, v)]
          /\ pc' = "array_loop"
          /\ UNCHANGED <<metadata_kv, kv_i>>

\* The eleven fixed-width arms.
ParseFixed ==
    /\ pc = "value"
    /\ CurrentType \in FixedTags
    /\ LET w == Width(CurrentType) IN
       IF ~CanRead(w) THEN
          /\ Truncated
          /\ UNCHANGED <<metadata_kv, ret>>
       ELSE
          /\ pos' = pos + w
          /\ Return(FixedValue(CurrentType, Peek(w)), pos, pos + w, stack)
          /\ UNCHANGED <<result, key, value_type, length, vstart>>
    /\ UNCHANGED <<version, tensor_count, metadata_kv_count, input, stream, calls,
                   pre, lookup>>
    /\ UNCHANGED <<other, conc>>

\* The String arm: the length.
ParseStringLength ==
    /\ pc = "value"
    /\ CurrentType = "String"
    /\ IF ~CanRead(8) THEN
          Truncated
       ELSE
          /\ pos' = pos + 8
          /\ length' = U64FromLeBytes(Peek(8))
          /\ vstart' = pos
          /\ pc' = "string"
          /\ UNCHANGED <<result, kv_i, key, value_type, stack>>
    /\ UNCHANGED <<version, tensor_count, metadata_kv_count, metadata_kv,
                   input, stream, calls, pre, lookup, ret>>
    /\ UNCHANGED <<other, conc>>

\* The String arm: vec![0; length], read_exact, String::from_utf8.
ParseString ==
    /\ pc = "string"
    /\ \E o \in AllocOutcomes(length) :
          IF o # "ok" THEN
             /\ Crash(o)
             /\ UNCHANGED <<pos, metadata_kv, ret>>
          ELSE IF ~CanReadLen(length) THEN
             /\ Truncated
             /\ UNCHANGED <<metadata_kv, ret>>
          ELSE LET b == Peek(length[1]) IN
             /\ pos' = pos + length[1]
             /\ IF FromUtf8Ok(b) THEN
                   /\ Return(Val("String", b), vstart, pos + length[1], stack)
                   /\ UNCHANGED <<result, key, value_type, length, vstart>>
                ELSE
                   /\ Fail(Err("InvalidUtf8"))
                   /\ UNCHANGED <<metadata_kv, ret>>
    /\ UNCHANGED <<version, tensor_count, metadata_kv_count, input, stream, calls,
                   pre, lookup>>
    /\ UNCHANGED <<other, conc>>

\* An array in progress: its element tag, its declared length, the elements
\* decoded so far (and, as bookkeeping, the cursor where the array began).
Frame(t, len, start) ==
    [value_type |-> t, length |-> len, value |-> <<>>, start |-> start]

\* (the element tag and the element count are read together, before the tag
\* is resolved)
ParseArrayTypeWithCount ==
    /\ pc = "value"
    /\ CurrentType = "Array"
    /\ IF ~CanRead(12) THEN
          /\ Truncated
          /\ UNCHANGED lookup
       ELSE LET item == U32FromLeBytes(Peek(4))
                res  == TryFrom(item)
            IN
          /\ pos' = pos + 4
          /\ lookup' = [made |-> TRUE, item |-> item, res |-> res]
          /\ IF res.ok THEN
                /\ stack' = Append(stack, Frame(res.tag, U64(0), pos))
                /\ pc' = "array_length"
                /\ UNCHANGED <<result, kv_i, key, value_type, length, vstart>>
             ELSE
                Fail(ErrCode("UnknownValueType", res.code))
    /\ UNCHANGED <<version, tensor_count, metadata_kv_count, metadata_kv,
                   input, stream, calls, pre, ret>>
    /\ UNCHANGED <<other, conc>>

\* The Array arm: the element tag.
ParseArrayType ==
    /\ pc = "value"
    /\ CurrentType = "Array"
    /\ IF ~CanRead(4) THEN
          /\ Truncated
          /\ UNCHANGED lookup
       ELSE LET item == U32FromLeBytes(Peek(4))
                res  == TryFrom(item)
            IN
          /\ pos' = pos + 4
          /\ lookup' = [made |-> TRUE, item |-> item, res |-> res]
          /\ IF res.ok THEN
                /\ stack' = Append(stack, Frame(res.tag, U64(0), pos))
                /\ pc' = "array_length"
                /\ UNCHANGED <<result, kv_i, key, value_type, length, vstart>>
             ELSE
                Fail(ErrCode("UnknownValueType", res.code))
    /\ UNCHANGED <<version, tensor_count, metadata_kv_count, metadata_kv,
                   input, stream, calls, pre, ret>>
    /\ UNCHANGED <<other, conc>>

\* (the element count is tested against the bytes that remain before any
\* element is decoded)
ParseArrayLengthEager ==
    /\ pc = "array_length"
    /\ IF ~CanRead(8) THEN
          Truncated
       ELSE IF ~IsSmall(U64FromLeBytes(Peek(8)))
               \/ U64FromLeBytes(Peek(8))[1] > Len(stream) - (pos + 8) THEN
          Truncated
       ELSE
          /\ pos' = pos + 8
          /\ stack' = [stack EXCEPT ![Len(stack)].length = U64FromLeBytes(Peek(8))]
          /\ pc' = "array_loop"
          /\ UNCHANGED <<result, kv_i, key, value_type, length, vstart>>
    /\ UNCHANGED <<version, tensor_count, metadata_kv_count, metadata_kv,
                   input, stream, calls, pre, lookup, ret>>
    /\ UNCHANGED <<other, conc>>

\* The Array arm: the element count.
ParseArrayLength ==
    /\ pc = "array_length"
    /\ IF ~CanRead(8) THEN
          Truncated
       ELSE
          /\ pos' = pos + 8
          /\ stack' = [stack EXCEPT ![Len(stack)].length = U64FromLeBytes(Peek(8))]
          /\ pc' = "array_loop"
          /\ UNCHANGED <<result, kv_i, key, value_type, length, vstart>>
    /\ UNCHANGED <<version, tensor_count, metadata_kv_count, metadata_kv,
                   input, stream, calls, pre, lookup, ret>>
    /\ UNCHANGED <<other, conc>>

\* The head of "for _ in 0..length": the next element is parsed with the
\* element tag, or the array is complete and returned.
ArrayLoop ==
    /\ pc = "array_loop"
    /\ LET f == stack[Len(stack)] IN
       IF IndexBelow(Len(f.value), f.length) THEN
          /\ pc' = "value"
          /\ UNCHANGED <<metadata_kv, kv_i, stack, ret>>
       ELSE
          Return(ArrayVal(f.value_type, f.length, f.value), f.start, pos,
                 SubSeq(stack, 1, Len(stack) - 1))
    /\ UNCHANGED <<version, tensor_count, metadata_kv_count, input, stream, pos,
                   result, key, value_type, length, calls, pre, lookup, vstart>>
    /\ UNCHANGED <<other, conc>>

\* ------------------------------------------------------------------------
\* Specification
\* ------------------------------------------------------------------------

Next ==
    \/ ReadCall
    \/ ReadOpenFails
    \/ ReadMagic
    \/ ReadTensorCount
    \/ ReadKvCount
    \/ KvLoop
    \/ ReadKeyLength
    \/ ReadKey
    \/ ReadValueType
    \/ ParseFixed
    \/ ParseStringLength
    \/ ParseString
    \/ ParseArrayType
    \/ ParseArrayLength
    \/ ArrayLoop

Spec == Init /\ [][Next]_vars

\* ------------------------------------------------------------------------
\* Two reads on two instances
\* ------------------------------------------------------------------------

\* The files of the two reads.
ConcInputs ==
    {Input("valid", c, 0, Encode(c)) :
        c \in {AnswerContainer, StringContainer, ScenarioArrayContainer, DeepContainer}}
    \cup {Input("truncated", DuplicateKeyContainer, 40,
                SubSeq(Encode(DuplicateKeyContainer), 1, 40)),
          Input("magic", AnswerContainer, 0,
                <<0, 0, 0, 0>> \o SubSeq(Encode(AnswerContainer), 5, 46))}

\* What a read leaves behind: its file, its result, the instance and the
\* cursor of its reader.
OutcomeOf(r) ==
    [input |-> r.input, result |-> r.result, version |-> r.version,
     tensor_count |-> r.tensor_count, metadata_kv_count |-> r.metadata_kv_count,
     metadata_kv |-> r.metadata_kv, pos |-> r.pos]

Ended(r) == r.pc \in {"returned", "crashed"}

InProgress(r) == r.pc \notin {"idle", "returned", "crashed"}

\* Both reads have been run alone.
Interleaving == Len(conc.alone) = 2

\* read is called on a new instance: alone, on any of the files; interleaved
\* with the other read, on the file it was run alone on.
ConcReadCall ==
    /\ calls = 0
    /\ ReadCallFrom(IF Interleaving THEN {conc.alone[conc.me].input} ELSE ConcInputs, {})
    /\ UNCHANGED <<other, conc>>

\* A read that ran alone has ended: its outcome is recorded, and the next
\* read starts on a new instance.
AloneDone ==
    /\ ~Interleaving
    /\ Ended(Regs)
    /\ conc' = [conc EXCEPT !.alone = Append(@, OutcomeOf(Regs))]
    /\ version' = New.version
    /\ tensor_count' = New.tensor_count
    /\ metadata_kv_count' = New.metadata_kv_count
    /\ metadata_kv' = New.metadata_kv
    /\ input' = New.input
    /\ stream' = New.stream
    /\ pos' = New.pos
    /\ pc' = New.pc
    /\ result' = New.result
    /\ kv_i' = New.kv_i
    /\ key' = New.key
    /\ value_type' = New.value_type
    /\ length' = New.length
    /\ stack' = New.stack
    /\ calls' = New.calls
    /\ pre' = New.pre
    /\ lookup' = New.lookup
    /\ ret' = New.ret
    /\ vstart' = New.vstart
    /\ UNCHANGED other

\* The scheduler leaves the running read where it is and runs the other.
Switch ==
    /\ Interleaving
    /\ ~(Ended(Regs) /\ Ended(other))
    /\ other' = Regs
    /\ conc' = [conc EXCEPT !.me = 3 - @,
                            !.mixed = @ \/ (InProgress(Regs) /\ InProgress(other))]
    /\ version' = other.version
    /\ tensor_count' = other.tensor_count
    /\ metadata_kv_count' = other.metadata_kv_count
    /\ metadata_kv' = other.metadata_kv
    /\ input' = other.input
    /\ stream' = other.stream
    /\ pos' = other.pos
    /\ pc' = other.pc
    /\ result' = other.result
    /\ kv_i' = other.kv_i
    /\ key' = other.key
    /\ value_type' = other.value_type
    /\ length' = other.length
    /\ stack' = other.stack
    /\ calls' = other.calls
    /\ pre' = other.pre
    /\ lookup' = other.lookup
    /\ ret' = other.ret
    /\ vstart' = other.vstart

ConcNext ==
    \/ ConcReadCall
    \/ AloneDone
    \/ Switch
    \/ ReadMagic
    \/ ReadTensorCount
    \/ ReadKvCount
    \/ KvLoop
    \/ ReadKeyLength
    \/ ReadKey
    \/ ReadValueType
    \/ ParseFixed
    \/ ParseStringLength
    \/ ParseString
    \/ ParseArrayType
    \/ ParseArrayLength
    \/ ArrayLoop

ConcSpec == Init /\ [][ConcNext]_vars

\* ------------------------------------------------------------------------
\* Properties
\* ------------------------------------------------------------------------

\* The read call in progress has ended with a Result.
Returned == pc = "returned" /\ calls >= 1

\* The instance holds what it held when read was called.
InstanceAsBefore ==
    /\ version = pre.version
    /\ tensor_count = pre.tensor_count
    /\ metadata_kv_count = pre.metadata_kv_count
    /\ metadata_kv = pre.metadata_kv

\* The file read was called on is a well-formed stream with exactly one
\* byte of its magic marker changed.
OneMagicByteChanged ==
    /\ input.how = "magic"
    /\ Cardinality({i \in 1..4 : stream[i] # Magic[i]}) = 1

\* C1: a well-formed stream with any single byte of its magic marker
\* changed is rejected with NotThisFormat, and the instance is left as it
\* was before the call.
C1_MagicCorruptionRejected ==
    (Returned /\ OneMagicByteChanged)
        => (result = Err("NotThisFormat") /\ InstanceAsBefore)

\* C2: read on a proper prefix of a well-formed stream ends with Truncated:
\* it neither succeeds nor ends any other way.
C2_PrefixIsTruncated ==
    (pc \in {"returned", "crashed"} /\ input.how = "truncated")
        => result = Err("Truncated")

\* a stream cut inside the last element of a nested array has been read
C2_Witness ==
    /\ Returned
    /\ input.how = "truncated"
    /\ input.base = DeepContainer
    /\ Len(stream) = Len(Encode(DeepContainer)) - 1
    /\ result = Err("Truncated")
    /\ pos = Len(stream)

\* C3: reading the encoding of a container into a fresh instance succeeds
\* and yields the container's version, tensor count and entries (same order,
\* keys, tags and values).
C3_RoundTrip ==
    (pc \in {"returned", "crashed"} /\ calls = 1 /\ input.how = "valid")
        => /\ result = Ok
           /\ version = input.base.version
           /\ tensor_count = input.base.tensor_count
           /\ metadata_kv = input.base.entries

\* the container with three entries, one a nested array, has been read back
C3_Witness ==
    /\ Returned
    /\ calls = 1
    /\ input.how = "valid"
    /\ result = Ok
    /\ Len(metadata_kv) = 3
    /\ metadata_kv[2] = EntryOf(KeyAnswer, WideNest)

\* C4: after a failed read the instance exposes no half-populated state:
\* neither header fields set by the failed read nor entries decoded before
\* the failure.
C4_AllOrNothing ==
    (Returned /\ ~result.ok) => InstanceAsBefore

\* C5: two reads of the same byte sequence yield the same result, also when
\* the second is made on the same instance: the same error, or success with
\* the same header fields and table.
C5_Deterministic ==
    (Returned /\ calls >= 2 /\ input # NoInput /\ stream = pre.stream
                /\ pre.result.err # "IoFailure")
        => /\ result = pre.result
           /\ result.ok => InstanceAsBefore

\* The read is about to read a type tag field: the tag of an entry, or the
\* element tag of an array (at any depth).
AtTagField == pc = "value_type" \/ (pc = "value" /\ CurrentType = "Array")

\* The four bytes at the cursor hold a code outside 0..12.
CodeOutside0to12 ==
    \/ stream[pos + 1] > 12
    \/ stream[pos + 2] # 0
    \/ stream[pos + 3] # 0
    \/ stream[pos + 4] # 0

\* C6: a type tag field that is fully present and holds a code outside
\* 0..12 ends the read with UnknownValueType carrying that code, for the tag
\* of an entry and for the element tag of an array at any depth.
C6_UnknownTagRejected ==
    [][(AtTagField /\ CanRead(4) /\ CodeOutside0to12)
          => /\ pc' = "returned"
             /\ result' = ErrCode("UnknownValueType",
                                  <<stream[pos + 1] + 256 * stream[pos + 2],
                                    stream[pos + 3] + 256 * stream[pos + 4]>>)]_vars

\* code 13 as the element tag of the innermost of three nested arrays
C6_Witness ==
    /\ Returned
    /\ input.how = "corrupted"
    /\ input.base = DeepContainer
    /\ input.at = 62
    /\ pos = 65
    /\ result = ErrCode("UnknownValueType", <<13, 0>>)

\* The tags in the order of their codes 0..12.
TagTable ==
    <<"UInt8", "Int8", "UInt16", "Int16", "UInt32", "Int32", "Float32",
      "Bool", "String", "Array", "UInt64", "Int64", "Float64">>

\* C7: try_from maps each code 0..12 to the tag at that place of the table
\* 0 UInt8 .. 12 Float64, whose discriminant is the code, and every other
\* u32 to an error.
C7_RegistryLookup ==
    lookup.made =>
        LET c == lookup.item IN
        IF c[2] = 0 /\ c[1] <= 12
        THEN /\ lookup.res.ok
             /\ lookup.res.tag = TagTable[c[1] + 1]
             /\ Discriminant(lookup.res.tag) = c[1]
        ELSE /\ ~lookup.res.ok
             /\ lookup.res.code = c

\* code 11 has been looked up
C7_Witness ==
    /\ lookup.made
    /\ lookup.item = <<11, 0>>
    /\ lookup.res.ok
    /\ lookup.res.tag = "Int64"

\* C8: after a successful read into a fresh instance the table holds
\* exactly metadata_kv_count entries, the i-th being the i-th entry of the
\* stream; entries of the same key are all kept, each at its place.
C8_TableInFileOrder ==
    (Returned /\ calls = 1 /\ result.ok)
        => /\ IsSmall(metadata_kv_count)
           /\ Len(metadata_kv) = metadata_kv_count[1]
           /\ input.how \in {"valid", "magic", "trailing"}
                 => /\ Len(metadata_kv) = Len(input.base.entries)
                    /\ \A i \in 1..Len(metadata_kv) :
                          metadata_kv[i] = input.base.entries[i]

\* two entries of the same key and different values have been read
C8_Witness ==
    /\ Returned
    /\ calls = 1
    /\ result.ok
    /\ input.base = DuplicateKeyContainer
    /\ Len(metadata_kv) = 2
    /\ metadata_kv[1].key = metadata_kv[2].key
    /\ metadata_kv[1].value_type = "UInt8"
    /\ metadata_kv[2].value_type = "String"

\* The read has passed the header.
HeaderRead ==
    \/ pc \in {"kv_loop", "key_length", "key", "value_type", "value", "string",
               "array_length", "array_loop"}
    \/ (pc = "returned" /\ result.ok)

\* The 16-bit limb of the little-endian integer that starts at stream[i].
LimbAt(i) == stream[i] + 256 * stream[i + 1]

\* magic, version 3, tensor_count 0, one entry: "answer", Int32, 42
AnswerStream ==
    <<71, 71, 85, 70,  3, 0, 0, 0,  0, 0, 0, 0, 0, 0, 0, 0,
      1, 0, 0, 0, 0, 0, 0, 0,  6, 0, 0, 0, 0, 0, 0, 0,
      97, 110, 115, 119, 101, 114,  5, 0, 0, 0,  42, 0, 0, 0>>

\* C9: the header fields are the little-endian integers at the fixed
\* offsets 4 (version), 8 (tensor_count) and 16 (metadata_kv_count), the
\* metadata starts at byte 24, and the stream of version 3, tensor_count 0
\* and the one entry ("answer", Int32, 42) decodes to just that.
C9_HeaderLayout ==
    /\ HeaderRead
          => /\ version = <<LimbAt(5), LimbAt(7)>>
             /\ tensor_count = <<LimbAt(9), LimbAt(11), LimbAt(13), LimbAt(15)>>
             /\ metadata_kv_count = <<LimbAt(17), LimbAt(19), LimbAt(21), LimbAt(23)>>
    /\ (pc = "kv_loop" /\ kv_i = 0) => pos = 24
    /\ (Returned /\ calls = 1 /\ stream = AnswerStream)
          => /\ result = Ok
             /\ version = <<3, 0>>
             /\ tensor_count = <<0, 0, 0, 0>>
             /\ metadata_kv =
                   <<[key |-> <<97, 110, 115, 119, 101, 114>>,
                      value_type |-> "Int32",
                      value |-> [kind |-> "Int32", val |-> 42]]>>

\* the stream of the scenario has been read
C9_Witness ==
    /\ Returned
    /\ calls = 1
    /\ stream = AnswerStream
    /\ result = Ok
    /\ pos = 46

\* C10: an array whose element count on the wire is 0 decodes to an Array
\* of len 0 with no elements and moves the cursor by exactly 12 bytes,
\* whatever its element tag.
C10_EmptyArray ==
    (/\ ret.value.kind = "Array"
     /\ \A j \in 5..12 : stream[ret.start + j] = 0)
        => /\ ret.value.val.value = <<>>
           /\ ret.value.val.len = <<0, 0, 0, 0>>
           /\ ret.value.val.value_type = TagTable[stream[ret.start + 1] + 1]
           /\ ret.end = ret.start + 12

\* an empty array of strings, itself an element of an array, has been decoded
C10_Witness ==
    /\ ret.value.kind = "Array"
    /\ ret.depth = 1
    /\ ret.value.val.value_type = "String"
    /\ ret.value.val.value = <<>>
    /\ ret.end = ret.start + 12

\* The last entry of the container the input encodes is an array of arrays.
NestedArrayInput ==
    LET es == input.base.entries IN
    /\ Len(es) >= 1
    /\ es[Len(es)].value.kind = "Array"
    /\ es[Len(es)].value.val.value_type = "Array"

\* C11: at every nesting level an array is decoded from its own element
\* tag and its own element count in the stream: the array a call returns
\* has the tag and the count at the place where it began, elements of that
\* tag, and encodes to the bytes the call consumed; a well-formed stream
\* whose entry is an array of arrays, of any sampled depth, is read with
\* Ok into the value tree it encodes.
C11_NestedArrays ==
    /\ ret.value.kind = "Array"
          => LET a == ret.value.val IN
             /\ a.value_type = TagTable[stream[ret.start + 1] + 1]
             /\ \A j \in 2..4 : stream[ret.start + j] = 0
             /\ a.len = <<LimbAt(ret.start + 5), LimbAt(ret.start + 7),
                          LimbAt(ret.start + 9), LimbAt(ret.start + 11)>>
             /\ \A i \in 1..Len(a.value) : TagOfVal(a.value[i]) = a.value_type
             /\ input.how # "corrupted"
                   => EncValue(ret.value) = SubSeq(stream, ret.start + 1, ret.end)
    /\ (/\ pc \in {"returned", "crashed"}
        /\ calls = 1
        /\ input.how = "valid"
        /\ NestedArrayInput)
          => /\ result = Ok
             /\ metadata_kv = input.base.entries
             /\ ret.depth = 0
             /\ ret.value = input.base.entries[Len(metadata_kv)].value

\* the array nested MaxDepth levels deep has been decoded
C11_Witness ==
    /\ Returned
    /\ input.how = "valid"
    /\ input.base = DeepContainer
    /\ result = Ok
    /\ ret.depth = 0
    /\ ret.value.kind = "Array"
    /\ ret.value = Nest(MaxDepth, FlatArray("UInt8", 2))
    /\ ret.value.val.value[1].val.value[1].val.value_type = "UInt8"

\* C12: when the length of a key or of a String declares more bytes than
\* remain in the stream, read returns the Truncated error, whatever the
\* declared length; a key that is produced has the declared length.
C12_DeclaredLengthTruncated ==
    [][/\ (pc \in {"key", "string"} /\ ~CanReadLen(length))
            => (pc' = "returned" /\ result' = Err("Truncated"))
       /\ (pc = "key" /\ pc' = "value_type")
            => (IsSmall(length) /\ Len(key') = length[1])]_vars

\* The variant of GGUFMetadataValue that carries the values of a tag.
VariantOf(t) ==
    CASE t = "UInt8"  -> "Uint8"
      [] t = "UInt16" -> "Uint16"
      [] t = "UInt32" -> "Uint32"
      [] t = "UInt64" -> "Uint64"
      [] OTHER        -> t

\* C13: in every state, the value_type of every entry of metadata_kv names
\* the variant of the entry's value.
C13_TagMatchesVariant ==
    \A i \in 1..Len(metadata_kv) :
        VariantOf(metadata_kv[i].value_type) = metadata_kv[i].value.kind

\* a Bool, an Array and an Int16 entry are in the table
C13_Witness ==
    /\ Returned
    /\ result = Ok
    /\ Len(metadata_kv) = 3
    /\ metadata_kv[1].value.kind = "Bool"
    /\ metadata_kv[2].value.kind = "Array"
    /\ metadata_kv[3].value.kind = "Int16"

\* len is the number of elements, in v and in every array within v.
RECURSIVE CountsAgree(_)
CountsAgree(v) ==
    v.kind = "Array"
        => /\ IsSmall(v.val.len)
           /\ Len(v.val.value) = v.val.len[1]
           /\ \A i \in 1..Len(v.val.value) : CountsAgree(v.val.value[i])

\* C14: every Array value, in the table or returned by a call, at any
\* depth, has len equal to the number of its elements, and len is the
\* element count in the stream where the array began; the elements of an
\* array in progress are never more than its element count.
C14_ArrayLenAgrees ==
    /\ \A i \in 1..Len(metadata_kv) : CountsAgree(metadata_kv[i].value)
    /\ ret.value.kind = "Array"
          => /\ CountsAgree(ret.value)
             /\ Len(ret.value.val.value) = LimbAt(ret.start + 5)
             /\ \A j \in 7..12 : stream[ret.start + j] = 0
    /\ \A d \in 1..Len(stack) :
          IsSmall(stack[d].length) => Len(stack[d].value) <= stack[d].length[1]

\* an array of two elements, itself an element of an array, has been decoded
C14_Witness ==
    /\ ret.value.kind = "Array"
    /\ ret.depth >= 1
    /\ ret.value.val.len = <<2, 0, 0, 0>>
    /\ Len(ret.value.val.value) = 2

\* Every element has the variant of the element tag, in v and in every
\* array within v.
RECURSIVE Homogeneous(_)
Homogeneous(v) ==
    v.kind = "Array"
        => \A i \in 1..Len(v.val.value) :
              /\ v.val.value[i].kind = VariantOf(v.val.value_type)
              /\ Homogeneous(v.val.value[i])

\* magic, version 3, tensor_count 0, one entry: "k", Array of UInt8, 3
\* elements 1, 2, 3
ScenarioArrayStream ==
    <<71, 71, 85, 70,  3, 0, 0, 0,  0, 0, 0, 0, 0, 0, 0, 0,
      1, 0, 0, 0, 0, 0, 0, 0,  1, 0, 0, 0, 0, 0, 0, 0,  107,
      9, 0, 0, 0,  0, 0, 0, 0,  3, 0, 0, 0, 0, 0, 0, 0,  1, 2, 3>>

\* C15: every element of an Array value, at any depth, has the variant
\* named by the array's value_type, and so have the elements decoded so
\* far of an array in progress; the entry of tag 9 with element tag UInt8,
\* count 3 and bytes 1, 2, 3 is the array of the Uint8 values 1, 2, 3.
C15_Homogeneous ==
    /\ \A i \in 1..Len(metadata_kv) : Homogeneous(metadata_kv[i].value)
    /\ Homogeneous(ret.value)
    /\ \A d \in 1..Len(stack) : \A i \in 1..Len(stack[d].value) :
          stack[d].value[i].kind = VariantOf(stack[d].value_type)
    /\ (Returned /\ calls = 1 /\ stream = ScenarioArrayStream)
          => /\ result = Ok
             /\ metadata_kv =
                   <<[key |-> <<107>>,
                      value_type |-> "Array",
                      value |-> [kind |-> "Array",
                                 val |-> [value_type |-> "UInt8",
                                          len |-> <<3, 0, 0, 0>>,
                                          value |-> <<[kind |-> "Uint8", val |-> 1],
                                                      [kind |-> "Uint8", val |-> 2],
                                                      [kind |-> "Uint8", val |-> 3]>>]]]>>

\* the stream of the scenario has been read into three elements
C15_Witness ==
    /\ Returned
    /\ calls = 1
    /\ stream = ScenarioArrayStream
    /\ Len(metadata_kv) = 1
    /\ Len(metadata_kv[1].value.val.value) = 3

\* C17: a GGUF is constructed empty and, once a read on it has returned,
\* no later call changes its header fields or its entries.
C17_PopulatedOnce ==
    /\ calls = 0
          => /\ version = <<0, 0>>
             /\ tensor_count = <<0, 0, 0, 0>>
             /\ metadata_kv_count = <<0, 0, 0, 0>>
             /\ metadata_kv = <<>>
    /\ calls >= 2 => InstanceAsBefore

\* Each of the first four bytes of the stream differs from the byte of the
\* magic marker at its place.
AllFourDiffer == \A i \in 1..4 : stream[i] # Magic[i]

\* C18: once the first 8 bytes have been read, read ends with
\* NotThisFormat, the instance untouched, exactly when all four of the first
\* bytes differ from the marker; when at least one of them is the expected
\* byte the read goes on and stores the version.  NotThisFormat is reported
\* in no other case.
C18_MagicCheckAsWritten ==
    /\ (calls >= 1 /\ pc # "magic" /\ input # NoInput /\ Len(stream) >= 8)
          => IF AllFourDiffer
             THEN /\ pc = "returned"
                  /\ result = Err("NotThisFormat")
                  /\ pos = 8
                  /\ InstanceAsBefore
             ELSE /\ result.err # "NotThisFormat"
                  /\ version = <<LimbAt(5), LimbAt(7)>>
    /\ result.err = "NotThisFormat" => (Len(stream) >= 8 /\ AllFourDiffer)

\* a stream with three of its four magic bytes wrong has been read with Ok
C18_Witness ==
    /\ Returned
    /\ input.how = "magic"
    /\ Cardinality({i \in 1..4 : stream[i] # Magic[i]}) = 3
    /\ result = Ok
    /\ Len(metadata_kv) >= 1

\* C19: read on a stream of at least 4 bytes whose first four bytes are
\* not the magic marker ends with NotThisFormat, also when the stream has
\* fewer than 8 bytes.
C19_MagicDecidedFirst ==
    (/\ calls >= 1
     /\ pc # "magic"
     /\ input # NoInput
     /\ Len(stream) >= 4
     /\ SubSeq(stream, 1, 4) # Magic)
        => result = Err("NotThisFormat")

\* The phase of the read: 1 MagicCheck, 2 HeaderRead, 3 MetadataLoop,
\* 4 Done (returned, or left by a panic or abort); 0 before any call.
PhaseOf(p) ==
    CASE p = "idle" -> 0
      [] p = "magic" -> 1
      [] p \in {"tensor_count", "kv_count"} -> 2
      [] p \in {"kv_loop", "key_length", "key", "value_type", "value", "string",
                "array_length", "array_loop"} -> 3
      [] p \in {"returned", "crashed"} -> 4

\* C20: within one read the phases are visited in the order MagicCheck,
\* HeaderRead, MetadataLoop, Done: a step stays in its phase, enters the
\* next one or ends the read; the step that fails ends the read without
\* appending an entry; and after the end nothing happens to the instance or
\* the stream but a new call of read.
C20_LinearPhases ==
    [][/\ calls' = calls
            => /\ PhaseOf(pc') >= PhaseOf(pc)
               /\ PhaseOf(pc') \in {PhaseOf(pc), PhaseOf(pc) + 1, 4}
       /\ (calls' = calls /\ result.err = "none" /\ result'.err \notin {"none", ""})
            => /\ pc' \in {"returned", "crashed"}
               /\ metadata_kv' = metadata_kv
       /\ pc \in {"returned", "crashed"}
            => /\ calls' = calls + 1
               /\ gguf' = gguf]_vars

\* a read has failed in the metadata loop after it appended an entry
C20_Witness ==
    /\ Returned
    /\ calls = 1
    /\ ~result.ok
    /\ Len(metadata_kv) >= 1
    /\ pos > 24

\* C16: when the steps of two reads on two instances are interleaved in
\* any way, each read that has ended has left behind what the same read left
\* behind when it ran alone: the same result, header fields, entries and
\* cursor.
C16_InterleavedAsAlone ==
    Interleaving
        => /\ Ended(Regs) => OutcomeOf(Regs) = conc.alone[conc.me]
           /\ Ended(other) => OutcomeOf(other) = conc.alone[3 - conc.me]

\* two reads of different files have ended after they were switched while
\* both were in progress, one with Ok and one with an error
C16_Witness ==
    /\ Interleaving
    /\ conc.mixed
    /\ Ended(Regs)
    /\ Ended(other)
    /\ result = Ok
    /\ Len(metadata_kv) = 1
    /\ other.result = Err("Truncated")
    /\ other.input # input

\* C21: a read that fails while it decodes the k-th entry of a stream (a
\* well-formed stream cut after its header) leaves in the instance the
\* header fields of that stream and, after the entries the instance held
\* when read was called (none, on a new instance), the first k - 1 entries
\* of the stream in file order.
C21_PartialTable ==
    (Returned /\ ~result.ok /\ input.how = "truncated" /\ input.at >= 24)
        => LET c == input.base IN
           /\ version = c.version
           /\ tensor_count = c.tensor_count
           /\ metadata_kv_count = <<Len(c.entries), 0, 0, 0>>
           /\ kv_i < Len(c.entries)
           /\ metadata_kv = pre.metadata_kv \o SubSeq(c.entries, 1, kv_i)
           /\ calls = 1 => metadata_kv = SubSeq(c.entries, 1, kv_i)

\* a read on a new instance has failed in the third entry of its stream
C21_Witness ==
    /\ Returned
    /\ calls = 1
    /\ input.how = "truncated"
    /\ result = Err("Truncated")
    /\ kv_i = 2
    /\ Len(metadata_kv) = 2
    /\ Len(input.base.entries) = 3
    /\ metadata_kv[2].value_type = "Array"

\* The file is a stream of one entry "k", an array of fixed-width elements,
\* cut within its elements or with a byte of its element count replaced:
\* the elements begin at byte 49.
FlatArrayInput ==
    LET es == input.base.entries IN
    /\ Len(es) = 1
    /\ es[1].key = KeyK
    /\ es[1].value.kind = "Array"
    /\ es[1].value.val.value_type \in FixedTags
    /\ \/ (input.how = "truncated" /\ input.at >= 49)
       \/ (input.how = "corrupted" /\ input.at \in 42..49)

\* C22: when the element count of an array is more than the stream can
\* supply, however large it is, the elements that are fully present are
\* decoded one by one and the read fails with Truncated at the first one
\* that is not: the last value returned is the last complete element, and
\* none was returned when not even one element is complete.
C22_ElementsOneAtATime ==
    (pc \in {"returned", "crashed"} /\ calls = 1 /\ FlatArrayInput)
        => LET t == TagTable[stream[38] + 1]
               w == Width(t)
               n == <<LimbAt(42), LimbAt(44), LimbAt(46), LimbAt(48)>>
               k == (Len(stream) - 49) \div w
           IN  (~IsSmall(n) \/ n[1] > k)
                  => /\ result = Err("Truncated")
                     /\ pos = Len(stream)
                     /\ metadata_kv = <<>>
                     /\ IF k = 0 THEN ret = NoReturn
                        ELSE /\ ret.depth = 1
                             /\ ret.start = 49 + (k - 1) * w
                             /\ ret.end = 49 + k * w
                             /\ ret.value =
                                   FixedValue(t, SubSeq(stream, ret.start + 1, ret.end))

\* an array that declares 2^56 elements and holds 3 has been read: its 3
\* elements were decoded before the read failed
C22_Witness ==
    /\ Returned
    /\ calls = 1
    /\ FlatArrayInput
    /\ input.how = "corrupted"
    /\ SubSeq(stream, 42, 49) = <<3, 0, 0, 0, 0, 0, 0, 1>>
    /\ result = Err("Truncated")
    /\ ret.depth = 1
    /\ ret.end = 52
    /\ ret.value = Val("Uint8", 3)

\* Whether two bytes are well-formed UTF-8: two ASCII characters, or one
\* character U+0080..U+07FF.
ValidPair(b1, b2) ==
    \/ (b1 < 128 /\ b2 < 128)
    \/ (b1 >= 194 /\ b1 <= 223 /\ b2 >= 128 /\ b2 <= 191)

\* The bytes s are what a string decoded from the stream at offset start
\* must be: the 8 bytes at start are the little-endian length of s, s is the
\* bytes after them, up to the cursor end, and s is UTF-8.
DecodedStringAt(s, start, end) ==
    /\ end = start + 8 + Len(s)
    /\ <<LimbAt(start + 1), LimbAt(start + 3), LimbAt(start + 5), LimbAt(start + 7)>>
          = <<Len(s), 0, 0, 0>>
    /\ s = SubSeq(stream, start + 9, end)
    /\ FromUtf8Ok(s)

\* C23: a String value and an entry key are decoded as an 8-byte
\* little-endian length n and the n bytes after it, 8 + n bytes in all (8
\* for the empty string), and only if those bytes are UTF-8; a read ends
\* with InvalidUtf8 only after it read n present bytes that are not UTF-8;
\* with one byte of the 2-byte key or of the 2-byte string of a stream
\* replaced, the read ends with InvalidUtf8 exactly when the two bytes are
\* no longer UTF-8, and with Ok otherwise.
C23_StringDecoding ==
    /\ ret.value.kind = "String"
          => /\ DecodedStringAt(ret.value.val, ret.start, ret.end)
             /\ (\A j \in 1..8 : stream[ret.start + j] = 0)
                   => (ret.value.val = <<>> /\ ret.end = ret.start + 8)
    /\ pc = "value_type" => DecodedStringAt(key, pos - Len(key) - 8, pos)
    /\ result.err = "InvalidUtf8"
          => /\ IsSmall(length)
             /\ pos >= length[1] + 8
             /\ <<LimbAt(pos - length[1] - 7), LimbAt(pos - length[1] - 5),
                  LimbAt(pos - length[1] - 3), LimbAt(pos - length[1] - 1)>> = length
             /\ ~FromUtf8Ok(SubSeq(stream, pos - length[1] + 1, pos))
    /\ (/\ pc \in {"returned", "crashed"}
        /\ calls = 1
        /\ input.how = "corrupted"
        /\ input.base = StringContainer
        /\ input.at \in {33, 34, 47, 48})
          => LET a == IF input.at <= 34 THEN 33 ELSE 47 IN
             IF ValidPair(stream[a], stream[a + 1])
             THEN result = Ok /\ pos = 48
             ELSE result = Err("InvalidUtf8") /\ pos = a + 1

\* the lead byte of a 2-byte character followed by a byte that is not a
\* continuation byte has been read as a key
C23_Witness ==
    /\ Returned
    /\ calls = 1
    /\ input.how = "corrupted"
    /\ input.base = StringContainer
    /\ input.at = 34
    /\ stream[33] = 195
    /\ stream[34] = 13
    /\ result = Err("InvalidUtf8")
    /\ pos = 34

\* The number of bytes of the fixed-width variants.
BytesOf(kind) ==
    CASE kind \in {"Uint8", "Int8", "Bool"}       -> 1
      [] kind \in {"Uint16", "Int16"}             -> 2
      [] kind \in {"Uint32", "Int32", "Float32"}  -> 4
      [] kind \in {"Uint64", "Int64", "Float64"}  -> 8

\* The digits in base 65536 of the sum of b[i] * 256^(i - 1).
SumLimbs(b) == [j \in 1..(Len(b) \div 2) |-> b[2 * j - 1] + 256 * b[2 * j]]

\* m + u = 2^64, for two numbers of four digits in base 65536.
SumIsTwoTo64(m, u) ==
    LET s1 == m[1] + u[1]
        s2 == m[2] + u[2] + (s1 \div Limb)
        s3 == m[3] + u[3] + (s2 \div Limb)
        s4 == m[4] + u[4] + (s3 \div Limb)
    IN  /\ s1 % Limb = 0
        /\ s2 % Limb = 0
        /\ s3 % Limb = 0
        /\ s4 = Limb

\* The value v of variant kind is the little-endian reading of the bytes b:
\* the sum of b[i] * 256^(i - 1) for the unsigned types and the bit patterns
\* of the floats, that sum less 2^(8 * Len(b)) for a signed type whose top
\* bit is set.
LittleEndianReading(kind, v, b) ==
    LET top == b[Len(b)] >= 128 IN
    CASE kind = "Uint8"  -> v = b[1]
      [] kind = "Int8"   -> v = b[1] - (IF top THEN 256 ELSE 0)
      [] kind = "Uint16" -> v = b[1] + 256 * b[2]
      [] kind = "Int16"  -> v = b[1] + 256 * b[2] - (IF top THEN 65536 ELSE 0)
      [] kind \in {"Uint32", "Float32", "Uint64", "Float64"} -> v = SumLimbs(b)
      [] kind = "Int32"  ->
            v = b[1] + 256 * b[2] + 65536 * b[3]
                + 16777216 * (b[4] - (IF top THEN 256 ELSE 0))
      [] kind = "Int64"  ->
            IF top THEN v.neg /\ SumIsTwoTo64(v.mag, SumLimbs(b))
            ELSE ~v.neg /\ v.mag = SumLimbs(b)
      [] kind = "Bool"   -> v \in BOOLEAN

\* C24: a fixed-width scalar is decoded from exactly 1, 2, 4 or 8 bytes,
\* by its type, read little-endian, signed types in two's complement.
C24_FixedWidthLittleEndian ==
    ret.value.kind \in {"Uint8", "Int8", "Bool", "Uint16", "Int16", "Uint32", "Int32",
                        "Float32", "Uint64", "Int64", "Float64"}
        => /\ ret.end = ret.start + BytesOf(ret.value.kind)
           /\ LittleEndianReading(ret.value.kind, ret.value.val,
                                  SubSeq(stream, ret.start + 1, ret.end))

\* the Int32 of the bytes 01 00 00 80, -2147483647, has been decoded
C24_Witness ==
    /\ ret.value.kind = "Int32"
    /\ SubSeq(stream, ret.start + 1, ret.end) = <<1, 0, 0, 128>>
    /\ ret.value.val = -2147483647

C26_OnlyHeaderAndMetadata ==
    (pc \in {"returned", "crashed"} /\ input.how \in {"valid", "trailing"})
        => LET c == input.base IN
           /\ result = Ok
           /\ pos = 24 + Len(EncEntries(c.entries))
           /\ pos <= Len(stream)
           /\ version = c.version
           /\ tensor_count = c.tensor_count
           /\ metadata_kv_count = <<Len(c.entries), 0, 0, 0>>
           /\ metadata_kv = pre.metadata_kv \o c.entries

\* a stream that announces 2 tensors and goes on for 3 bytes after its
\* entries has been read
C26_Witness ==
    /\ Returned
    /\ calls = 1
    /\ result = Ok
    /\ input.how = "trailing"
    /\ input.base = DeepContainer
    /\ tensor_count = <<2, 0, 0, 0>>
    /\ Len(stream) = pos + 3
    /\ metadata_kv = DeepContainer.entries

\* C27: after a successful read and then a successful read of a
\* well-formed stream B on the same instance, the table is the entries the
\* first read left followed by the entries of B, and the header fields are
\* those of B; after exactly two reads the table is as long as
\* metadata_kv_count says only when the first stream had no entries, and a
\* stream read twice has each of its entries twice.
C27_SecondReadAppends ==
    (Returned /\ calls >= 2 /\ result.ok /\ pre.result.ok /\ input.how = "valid")
        => LET c == input.base IN
           /\ version = c.version
           /\ tensor_count = c.tensor_count
           /\ metadata_kv_count = <<Len(c.entries), 0, 0, 0>>
           /\ metadata_kv = pre.metadata_kv \o c.entries
           /\ calls = 2
                 => /\ Len(pre.metadata_kv) = pre.metadata_kv_count[1]
                    /\ (Len(metadata_kv) = metadata_kv_count[1]) <=> (pre.metadata_kv = <<>>)
                    /\ stream = pre.stream => metadata_kv = c.entries \o c.entries

\* a stream of one entry has been read after a stream of two entries
C27_Witness ==
    /\ Returned
    /\ calls = 2
    /\ result = Ok
    /\ pre.result = Ok
    /\ input.how = "valid"
    /\ input.base = AnswerContainer
    /\ pre.metadata_kv = DuplicateKeyContainer.entries
    /\ metadata_kv_count = <<1, 0, 0, 0>>
    /\ Len(metadata_kv) = 3
    /\ metadata_kv[3] = AnswerContainer.entries[1]

\* The bytes consumed bound the loops: each entry decoded took at least 13
\* bytes after the header, and each element of an array in progress at
\* least 1 byte after the 12 bytes of the array's tag and count.
LoopsBoundedByStream ==
    /\ pc \in {"kv_loop", "key_length", "key", "value_type", "value", "string",
               "array_length", "array_loop"}
          => 24 + 13 * kv_i <= pos
    /\ \A d \in 1..Len(stack) :
          (pc # "array_length" \/ d < Len(stack))
             => stack[d].start + 12 + Len(stack[d].value) <= pos
    /\ pos <= Len(stream)

\* C28: every read ends by returning Ok or an error, and its loops are
\* bounded by the stream: the entry loop has consumed at least 13 bytes for
\* each entry and an array loop at least 1 byte for each element, so neither
\* can go on once the stream is exhausted, however large the counts.
C28_ReadTerminates ==
    /\ pc # "crashed"
    /\ LoopsBoundedByStream

\* The layout of the first entry of a stream whose key is shorter than 256
\* bytes: the offset of its type tag, and the offset of the element tag of
\* the array nested d deep in it (each array before it holding the next as
\* its first element).
EntryTagAt == 32 + stream[25]

ElementTagAt(d) == EntryTagAt + 4 + 12 * (d - 1)

WordAt(o) == <<LimbAt(o + 1), LimbAt(o + 3)>>

IsArrayCode(o) == TryFrom(WordAt(o)).ok /\ TryFrom(WordAt(o)).tag = "Array"

\* The header is accepted, at least one entry is declared, and the first
\* key is complete and valid.
FirstKeyRead ==
    /\ Len(stream) >= 32
    /\ ~AllFourDiffer
    /\ \E i \in 17..24 : stream[i] # 0
    /\ \A i \in 26..32 : stream[i] = 0
    /\ Len(stream) >= EntryTagAt
    /\ FromUtf8Ok(SubSeq(stream, 33, EntryTagAt))

\* The read gets as far as the element tag of the array nested d deep, and
\* the 4 bytes of that tag are present.
ReachesElementTag(d) ==
    /\ FirstKeyRead
    /\ Len(stream) >= ElementTagAt(d) + 4
    /\ IsArrayCode(EntryTagAt)
    /\ \A e \in 1..(d - 1) :
          /\ IsArrayCode(ElementTagAt(e))
          /\ \E i \in (ElementTagAt(e) + 5)..(ElementTagAt(e) + 12) : stream[i] # 0

\* C29: the element tag of an array is resolved before its element count is
\* read: once the 4 bytes of an element tag outside 0..12 have been read, the
\* read fails with UnknownValueType carrying that code, with the cursor right
\* after the tag, whatever follows: a count of 0, any other count, or the end
\* of the stream.
C29_ElementTagBeforeCount ==
    \A d \in 1..MaxDepth :
       (pc \in {"returned", "crashed"} /\ calls >= 1 /\ ReachesElementTag(d)
           /\ ~TryFrom(WordAt(ElementTagAt(d))).ok)
          => /\ pc = "returned"
             /\ result = ErrCode("UnknownValueType", WordAt(ElementTagAt(d)))
             /\ pos = ElementTagAt(d) + 4
             /\ metadata_kv = pre.metadata_kv

C29_Witness ==
    /\ Returned /\ calls = 1
    /\ ReachesElementTag(1)
    /\ ~TryFrom(WordAt(ElementTagAt(1))).ok
    /\ Len(stream) = ElementTagAt(1) + 4
    /\ input.base = ScenarioArrayContainer
    /\ result = ErrCode("UnknownValueType", <<255, 0>>)

C29_ZeroCount ==
    /\ Returned /\ calls = 1
    /\ ReachesElementTag(1)
    /\ ~TryFrom(WordAt(ElementTagAt(1))).ok
    /\ Len(stream) = ElementTagAt(1) + 12
    /\ \A i \in (ElementTagAt(1) + 5)..(ElementTagAt(1) + 12) : stream[i] = 0
    /\ result.err = "UnknownValueType"

C29_Nested ==
    /\ Returned /\ calls = 1
    /\ ReachesElementTag(2)
    /\ ~TryFrom(WordAt(ElementTagAt(2))).ok
    /\ result.err = "UnknownValueType"

\* The header is accepted, at least one entry is declared, and the length of
\* the first key is below 256.
FirstKeyLengthRead ==
    /\ Len(stream) >= 32
    /\ ~AllFourDiffer
    /\ \E i \in 17..24 : stream[i] # 0
    /\ \A i \in 26..32 : stream[i] = 0

\* C30: within the first entry the earliest defect in wire order decides the
\* error: an incomplete key is Truncated whatever its bytes are; a complete
\* key that is invalid UTF-8 is InvalidUtf8 whatever follows it; after a
\* valid key a missing type tag is Truncated, and a type tag outside 0..12 is
\* UnknownValueType whether or not any payload follows.  No entry is added.
C30_WireOrder ==
    (pc \in {"returned", "crashed"} /\ calls >= 1 /\ FirstKeyLengthRead)
       => LET k == EntryTagAt IN
          /\ Len(stream) < k
                => result = Err("Truncated") /\ pos = Len(stream)
          /\ (Len(stream) >= k /\ ~FromUtf8Ok(SubSeq(stream, 33, k)))
                => result = Err("InvalidUtf8") /\ pos = k
          /\ (Len(stream) >= k /\ FromUtf8Ok(SubSeq(stream, 33, k)) /\ Len(stream) < k + 4)
                => result = Err("Truncated") /\ pos = Len(stream)
          /\ (Len(stream) >= k + 4 /\ FromUtf8Ok(SubSeq(stream, 33, k))
                /\ ~TryFrom(WordAt(k)).ok)
                => result = ErrCode("UnknownValueType", WordAt(k)) /\ pos = k + 4
          /\ (Len(stream) < k + 4 \/ ~FromUtf8Ok(SubSeq(stream, 33, k))
                \/ ~TryFrom(WordAt(k)).ok)
                => pc = "returned" /\ metadata_kv = pre.metadata_kv

\* An incomplete key whose present bytes are invalid UTF-8: Truncated.
C30_Witness ==
    /\ Returned /\ calls = 1
    /\ FirstKeyLengthRead
    /\ stream[25] = 6
    /\ Len(stream) = 35
    /\ stream[33] = 255
    /\ ~FromUtf8Ok(SubSeq(stream, 33, 35))
    /\ result = Err("Truncated")

\* A complete invalid key followed by an unknown type tag: InvalidUtf8.
C30_InvalidKeyUnknownTag ==
    /\ Returned /\ calls = 1
    /\ FirstKeyLengthRead
    /\ Len(stream) >= EntryTagAt + 4
    /\ ~FromUtf8Ok(SubSeq(stream, 33, EntryTagAt))
    /\ ~TryFrom(WordAt(EntryTagAt)).ok
    /\ result = Err("InvalidUtf8")

\* A complete invalid key at the end of the stream: InvalidUtf8.
C30_InvalidKeyNoTag ==
    /\ Returned /\ calls = 1
    /\ FirstKeyLengthRead
    /\ Len(stream) = EntryTagAt
    /\ stream[25] > 0
    /\ result = Err("InvalidUtf8")

\* An unknown type tag at the end of the stream: UnknownValueType.
C30_UnknownTagNoPayload ==
    /\ Returned /\ calls = 1
    /\ FirstKeyLengthRead
    /\ Len(stream) = EntryTagAt + 4
    /\ result.err = "UnknownValueType"

=============================================================================
